---- MODULE Spec2Model ----
(***************************************************************************)
(* Model of the ConversationRelay WebSocket handler of src/src/server.ts:  *)
(* the per-connection closure created by wss.on('connection'), its message *)
(* handler handleMessage with one branch per message type, the helper      *)
(* sendTextToTTS and the asynchronous helper getAIResponse.                *)
(*                                                                         *)
(* A JavaScript string is modelled as a sequence of text chunks, so that   *)
(* the empty string is <<>> and a template literal is a concatenation.     *)
(* A JavaScript value is Undefined, Null or a string value Str(s).         *)
(***************************************************************************)
EXTENDS Integers, Sequences, FiniteSets, TLC

\* Number of inbound messages delivered on one connection.
MaxEvents == 4
\* Number of generation calls issued on one connection.
MaxCalls == 2
\* Number of inbound messages on each of two concurrent connections.
PairEvents == 1
\* Number of inbound messages of the end-to-end scenario.
ScenarioEvents == 5

\* Indices of the events received on one connection.
EventIds == 1..ScenarioEvents

\* Connection identifiers; one closure of wss.on('connection') per identifier.
ConnIds == {1, 2}

----------------------------------------------------------------------------
(* JavaScript values *)

Undefined == [t |-> "undefined"]
Null == [t |-> "null"]
Str(s) == [t |-> "string", v |-> s]

\* A test for a present string (x !== undefined) instead of truthiness.
Present(x) == x.t = "string"

\* JavaScript truthiness of a value: undefined, null and "" are falsy.
Truthy(x) == x.t = "string" /\ Len(x.v) > 0

\* String conversion as a template literal `${x}` performs it.
ToText(x) ==
    IF x.t = "undefined" THEN <<"undefined">>
    ELSE IF x.t = "null" THEN <<"null">>
    ELSE x.v

----------------------------------------------------------------------------
(* Fixed texts of the source *)

Greeting == <<"Hello! Welcome to the voice assistant. How can I help you today?">>
DefaultReply == <<"I'm sorry, I didn't understand that.">>
FallbackReply == <<"I'm having trouble processing that request. Please try again.">>
DefaultLang == <<"en-US">>

----------------------------------------------------------------------------
(* Inputs *)

\* callSid field of a setup message: present or missing.
SetupSids == {Str(<<"CA1">>), Undefined}
\* voicePrompt field of a prompt message: an utterance, the empty string, missing.
VoicePrompts == {Str(<<"hi">>), Str(<<>>), Undefined}
\* digit field of a dtmf message: present or missing.
Digits == {Str(<<"5">>), Undefined}
\* Outcome of openai.chat.completions.create: the promise rejects, or resolves
\* with a completion whose first choice's content is a text, empty or missing.
Completions ==
    {[ok |-> FALSE, content |-> Undefined],
     [ok |-> TRUE, content |-> Str(<<"hello">>)],
     [ok |-> TRUE, content |-> Str(<<>>)],
     [ok |-> TRUE, content |-> Undefined]}

----------------------------------------------------------------------------
VARIABLES
    conns,      \* the connections accepted by the WebSocket server
    callSid,    \* callSid[c]: the closure variable callSid of connection c
    wire,       \* wire[c]: the payloads handed to ws.send, in order, each with its cause
    pending,    \* pending[c]: handleMessage invocations suspended at the await
    wsOpen,     \* wsOpen[c]: the transport has not closed the socket
    uncaught,   \* uncaught[c]: events whose handleMessage promise rejected
    nrecv,      \* nrecv[c]: number of messages received (index of the last event)
    prompts,    \* prompts[c]: the prompt events with a non-empty utterance, in order
    genCalls,   \* genCalls[c]: events for which a generation call was issued, in order
    resolved,   \* resolved[c]: the generation calls that settled, with their outcome
    phase,      \* phase[c]: Idle / Active / Closed as the events received define it
    fenced,     \* fenced[c]: calls outstanding when an interrupt / newer prompt / stop arrived
    events,     \* events[c]: the types of the messages received, in order (history)
    limit       \* limit[c]: the number of messages the peer delivers on connection c

vars == <<conns, callSid, wire, pending, wsOpen, uncaught, nrecv, prompts,
          genCalls, resolved, phase, fenced, events, limit>>

----------------------------------------------------------------------------
(* Helpers of the connection closure *)

\* The wire message with the text under the key text instead of token.
PayloadTextKey(text, lang) ==
    [type |-> "text", text |-> text, last |-> TRUE, lang |-> lang,
     interruptible |-> TRUE, preemptible |-> TRUE]

\* The wire message built by sendTextToTTS.
Payload(text, lang) ==
    [type |-> "text", token |-> text, last |-> TRUE, lang |-> lang,
     interruptible |-> TRUE, preemptible |-> TRUE]

\* sendTextToTTS putting its payload ahead of the payloads already sent.
SendTextUnshift(out, text, lang, tag) ==
    IF Len(text) = 0 THEN out
    ELSE <<[msg |-> Payload(text, lang), ev |-> tag.ev, by |-> tag.by]>> \o out

\* sendTextToTTS(text, lang): the sequence of ws.send payloads after the call.
\* tag names the event whose handling makes the call (history, not sent).
SendTextToTTS(out, text, lang, tag) ==
    IF Len(text) = 0 THEN out
    ELSE Append(out, [msg |-> Payload(text, lang), ev |-> tag.ev, by |-> tag.by])

\* getAIResponse returning the content as it is, without the default reply.
GetAIResponseNoDefault(completion) ==
    IF ~completion.ok THEN FallbackReply
    ELSE IF Truthy(completion.content) THEN completion.content.v
    ELSE <<>>

\* getAIResponse with ?? in place of ||: the default reply stands in for a
\* missing content only, and an empty content is returned as it is.
GetAIResponseNullish(completion) ==
    IF ~completion.ok THEN FallbackReply
    ELSE IF completion.content.t = "string" THEN completion.content.v
    ELSE DefaultReply

\* getAIResponse: the text it returns for an outcome of the completion request.
GetAIResponse(completion) ==
    IF ~completion.ok THEN FallbackReply
    ELSE IF Truthy(completion.content) THEN completion.content.v
    ELSE DefaultReply

----------------------------------------------------------------------------
Init ==
    /\ conns = {1}
    /\ callSid = [c \in ConnIds |-> Null]
    /\ wire = [c \in ConnIds |-> <<>>]
    /\ pending = [c \in ConnIds |-> {}]
    /\ wsOpen = [c \in ConnIds |-> TRUE]
    /\ uncaught = [c \in ConnIds |-> {}]
    /\ nrecv = [c \in ConnIds |-> 0]
    /\ prompts = [c \in ConnIds |-> <<>>]
    /\ genCalls = [c \in ConnIds |-> <<>>]
    /\ resolved = [c \in ConnIds |-> {}]
    /\ phase = [c \in ConnIds |-> "Idle"]
    /\ fenced = [c \in ConnIds |-> [interrupt |-> {}, prompt |-> {}, stop |-> {}]]
    /\ events = [c \in ConnIds |-> <<>>]
    /\ limit = [c \in ConnIds |-> MaxEvents]

\* Message events delivered one after the other: the next one is handled only
\* after the promise of the handler of the previous one has settled.
ReceivesInTurn(c) ==
    /\ c \in conns
    /\ wsOpen[c]
    /\ pending[c] = {}
    /\ nrecv[c] < limit[c]
    /\ nrecv' = [nrecv EXCEPT ![c] = @ + 1]
    /\ UNCHANGED limit

\* A message event is delivered on connection c.
Receives(c) ==
    /\ c \in conns
    /\ wsOpen[c]
    /\ nrecv[c] < limit[c]
    /\ nrecv' = [nrecv EXCEPT ![c] = @ + 1]
    /\ UNCHANGED limit

\* The message received has the given type field (history).
Typed(c, type) == events' = [events EXCEPT ![c] = Append(@, type)]

\* The events whose generation call is outstanding on connection c.
Outstanding(c) == {call.ev : call \in pending[c]}

\* handleCallSetup with callSid declared outside the connection callback, so
\* that all connections share the one variable.
HandleCallSetupSharedSid(c, sid) ==
    /\ Receives(c)
    /\ Typed(c, "setup")
    /\ callSid' = [d \in ConnIds |-> sid]
    /\ wire' = [wire EXCEPT ![c] =
                    SendTextToTTS(@, Greeting, DefaultLang,
                                  [ev |-> nrecv'[c], by |-> "setup"])]
    /\ phase' = [phase EXCEPT ![c] = IF @ = "Idle" THEN "Active" ELSE @]
    /\ UNCHANGED <<conns, pending, wsOpen, uncaught, prompts, genCalls,
                   resolved, fenced>>

\* case 'setup': handleCallSetup.
HandleCallSetup(c, sid) ==
    /\ Receives(c)
    /\ Typed(c, "setup")
    /\ callSid' = [callSid EXCEPT ![c] = sid]
    /\ wire' = [wire EXCEPT ![c] =
                    SendTextToTTS(@, Greeting, DefaultLang,
                                  [ev |-> nrecv'[c], by |-> "setup"])]
    /\ phase' = [phase EXCEPT ![c] = IF @ = "Idle" THEN "Active" ELSE @]
    /\ UNCHANGED <<conns, pending, wsOpen, uncaught, prompts, genCalls,
                   resolved, fenced>>

\* case 'prompt': handleConversationTurn up to its await. With a truthy
\* voicePrompt the completion request is issued and the invocation suspends.
HandleConversationTurn(c, voicePrompt) ==
    /\ Receives(c)
    /\ Typed(c, "prompt")
    /\ Truthy(voicePrompt) => Len(genCalls[c]) < MaxCalls
    /\ IF Truthy(voicePrompt)
       THEN /\ prompts' = [prompts EXCEPT ![c] = Append(@, nrecv'[c])]
            /\ pending' = [pending EXCEPT ![c] =
                    @ \cup {[ev |-> nrecv'[c], userMessage |-> voicePrompt.v]}]
            /\ genCalls' = [genCalls EXCEPT ![c] = Append(@, nrecv'[c])]
            /\ fenced' = [fenced EXCEPT ![c].prompt = @ \cup Outstanding(c)]
       ELSE UNCHANGED <<prompts, pending, genCalls, fenced>>
    /\ UNCHANGED <<conns, callSid, wire, wsOpen, uncaught, resolved, phase>>

\* handleConversationTurn after its await with a getAIResponse that has no
\* try/catch: a rejected completion request rejects handleMessage's promise.
ResumeConversationTurnNoCatch(c, ev, completion) ==
    /\ c \in conns
    /\ \E call \in pending[c] :
          /\ call.ev = ev
          /\ pending' = [pending EXCEPT ![c] = @ \ {call}]
          /\ wire' = [wire EXCEPT ![c] =
                        IF completion.ok
                        THEN SendTextToTTS(@, GetAIResponse(completion), DefaultLang,
                                           [ev |-> call.ev, by |-> "prompt"])
                        ELSE @]
          /\ uncaught' = [uncaught EXCEPT ![c] =
                        IF completion.ok THEN @ ELSE @ \cup {call.ev}]
          /\ resolved' = [resolved EXCEPT ![c] =
                        @ \cup {[ev |-> call.ev, ok |-> completion.ok]}]
    /\ UNCHANGED <<conns, callSid, wsOpen, nrecv, prompts, genCalls, phase, fenced,
                   events, limit>>

\* handleConversationTurn after its await with a getAIResponse that issues
\* the completion request a second time when the first attempt is rejected.
ResumeConversationTurnRetry(c, ev, completion) ==
    /\ c \in conns
    /\ \E call \in pending[c] :
          /\ call.ev = ev
          /\ IF /\ ~completion.ok
                /\ Cardinality({k \in DOMAIN genCalls[c] : genCalls[c][k] = ev}) < 2
             THEN /\ genCalls' = [genCalls EXCEPT ![c] = Append(@, ev)]
                  /\ UNCHANGED <<pending, wire, resolved>>
             ELSE /\ pending' = [pending EXCEPT ![c] = @ \ {call}]
                  /\ wire' = [wire EXCEPT ![c] =
                        SendTextToTTS(@, GetAIResponse(completion), DefaultLang,
                                      [ev |-> call.ev, by |-> "prompt"])]
                  /\ resolved' = [resolved EXCEPT ![c] =
                        @ \cup {[ev |-> call.ev, ok |-> completion.ok]}]
                  /\ UNCHANGED genCalls
    /\ UNCHANGED <<conns, callSid, wsOpen, uncaught, nrecv, prompts, phase, fenced,
                   events, limit>>

\* handleConversationTurn after its await: the completion request of a
\* suspended invocation settles, getAIResponse returns and the text is sent.
ResumeConversationTurn(c, ev, completion) ==
    /\ c \in conns
    /\ \E call \in pending[c] :
          /\ call.ev = ev
          /\ pending' = [pending EXCEPT ![c] = @ \ {call}]
          /\ wire' = [wire EXCEPT ![c] =
                        SendTextToTTS(@, GetAIResponse(completion), DefaultLang,
                                      [ev |-> call.ev, by |-> "prompt"])]
          /\ resolved' = [resolved EXCEPT ![c] =
                        @ \cup {[ev |-> call.ev, ok |-> completion.ok]}]
    /\ UNCHANGED <<conns, callSid, wsOpen, uncaught, nrecv, prompts, genCalls,
                   phase, fenced, events, limit>>

\* case 'interrupt': handleUserInterruption.
HandleUserInterruption(c) ==
    /\ Receives(c)
    /\ Typed(c, "interrupt")
    /\ fenced' = [fenced EXCEPT ![c].interrupt = @ \cup Outstanding(c)]
    /\ UNCHANGED <<conns, callSid, wire, pending, wsOpen, uncaught, prompts,
                   genCalls, resolved, phase>>

\* handleDTMFInput acknowledging the key press without naming the digit.
HandleDTMFInputNoDigit(c, digit) ==
    /\ Receives(c)
    /\ Typed(c, "dtmf")
    /\ wire' = [wire EXCEPT ![c] =
                    SendTextToTTS(@, <<"You pressed ", "a key">>, DefaultLang,
                                  [ev |-> nrecv'[c], by |-> "dtmf"])]
    /\ UNCHANGED <<conns, callSid, pending, wsOpen, uncaught, prompts, genCalls,
                   resolved, phase, fenced>>

\* case 'dtmf': handleDTMFInput.
HandleDTMFInput(c, digit) ==
    /\ Receives(c)
    /\ Typed(c, "dtmf")
    /\ wire' = [wire EXCEPT ![c] =
                    SendTextToTTS(@, <<"You pressed ">> \o ToText(digit), DefaultLang,
                                  [ev |-> nrecv'[c], by |-> "dtmf"])]
    /\ UNCHANGED <<conns, callSid, pending, wsOpen, uncaught, prompts, genCalls,
                   resolved, phase, fenced>>

\* case 'error' closing the socket after logging the description.
HandleErrorCloses(c) ==
    /\ Receives(c)
    /\ Typed(c, "error")
    /\ wsOpen' = [wsOpen EXCEPT ![c] = FALSE]
    /\ UNCHANGED <<conns, callSid, wire, pending, uncaught, prompts,
                   genCalls, resolved, phase, fenced>>

\* case 'error': the description is logged.
HandleError(c) ==
    /\ Receives(c)
    /\ Typed(c, "error")
    /\ UNCHANGED <<conns, callSid, wire, pending, wsOpen, uncaught, prompts,
                   genCalls, resolved, phase, fenced>>

\* case 'stop': handleCallEnd.
HandleCallEnd(c) ==
    /\ Receives(c)
    /\ Typed(c, "stop")
    /\ phase' = [phase EXCEPT ![c] = "Closed"]
    /\ fenced' = [fenced EXCEPT ![c].stop = @ \cup Outstanding(c)]
    /\ UNCHANGED <<conns, callSid, wire, pending, wsOpen, uncaught, prompts,
                   genCalls, resolved>>

\* A message whose data is not JSON: JSON.parse throws at the first statement
\* of the async handleMessage, whose promise rejects with nobody handling it.
HandleUnparsable(c) ==
    /\ Receives(c)
    /\ Typed(c, "(none)")
    /\ uncaught' = [uncaught EXCEPT ![c] = @ \cup {nrecv'[c]}]
    /\ UNCHANGED <<conns, callSid, wire, pending, wsOpen, prompts, genCalls,
                   resolved, phase, fenced>>

\* ws.on('close'): the transport closed the socket; the handler logs it.
WsClose(c) ==
    /\ c \in conns
    /\ wsOpen[c]
    /\ wsOpen' = [wsOpen EXCEPT ![c] = FALSE]
    /\ UNCHANGED <<conns, callSid, wire, pending, uncaught, nrecv, prompts,
                   genCalls, resolved, phase, fenced, events, limit>>

Next ==
    \/ \E c \in ConnIds, digit \in Digits : HandleDTMFInput(c, digit)
    \/ \E c \in ConnIds, voicePrompt \in VoicePrompts : HandleConversationTurn(c, voicePrompt)
    \/ \E c \in ConnIds, ev \in EventIds, completion \in Completions :
          ResumeConversationTurn(c, ev, completion)
    \/ \E c \in ConnIds : HandleUserInterruption(c)
    \/ \E c \in ConnIds, sid \in SetupSids : HandleCallSetup(c, sid)
    \/ \E c \in ConnIds : HandleError(c)
    \/ \E c \in ConnIds : HandleCallEnd(c)
    \/ \E c \in ConnIds : HandleUnparsable(c)
    \/ \E c \in ConnIds : WsClose(c)

Spec == Init /\ [][Next]_vars

\* Two concurrent connections, each with its own closure.
InitPair ==
    /\ conns = {1, 2}
    /\ callSid = [c \in ConnIds |-> Null]
    /\ wire = [c \in ConnIds |-> <<>>]
    /\ pending = [c \in ConnIds |-> {}]
    /\ wsOpen = [c \in ConnIds |-> TRUE]
    /\ uncaught = [c \in ConnIds |-> {}]
    /\ nrecv = [c \in ConnIds |-> 0]
    /\ prompts = [c \in ConnIds |-> <<>>]
    /\ genCalls = [c \in ConnIds |-> <<>>]
    /\ resolved = [c \in ConnIds |-> {}]
    /\ phase = [c \in ConnIds |-> "Idle"]
    /\ fenced = [c \in ConnIds |-> [interrupt |-> {}, prompt |-> {}, stop |-> {}]]
    /\ events = [c \in ConnIds |-> <<>>]
    /\ limit = [c \in ConnIds |-> PairEvents]

SpecPair == InitPair /\ [][Next]_vars

\* sendTextToTTS called on its own with any text and any lang argument; a
\* missing lang argument takes the default of the parameter.
SendText(c, text, lang) ==
    /\ Receives(c)
    /\ Typed(c, IF Len(text) = 0 THEN "sendText('')" ELSE "sendText(text)")
    /\ wire' = [wire EXCEPT ![c] =
                    SendTextToTTS(@, text,
                                  IF lang = Undefined THEN DefaultLang ELSE lang.v,
                                  [ev |-> nrecv'[c], by |-> "call"])]
    /\ UNCHANGED <<conns, callSid, pending, wsOpen, uncaught, prompts, genCalls,
                   resolved, phase, fenced>>

\* The texts and the lang arguments sendTextToTTS is called with.
Texts == {<<>>, <<"Hi">>, <<"You pressed ", "5">>}
Langs == {Undefined, Str(<<"es-ES">>)}

NextEncoder ==
    \E c \in ConnIds, text \in Texts, lang \in Langs : SendText(c, text, lang)

SpecEncoder == Init /\ [][NextEncoder]_vars

\* One connection on which the peer delivers the messages of a whole call.
InitScenario ==
    /\ conns = {1}
    /\ callSid = [c \in ConnIds |-> Null]
    /\ wire = [c \in ConnIds |-> <<>>]
    /\ pending = [c \in ConnIds |-> {}]
    /\ wsOpen = [c \in ConnIds |-> TRUE]
    /\ uncaught = [c \in ConnIds |-> {}]
    /\ nrecv = [c \in ConnIds |-> 0]
    /\ prompts = [c \in ConnIds |-> <<>>]
    /\ genCalls = [c \in ConnIds |-> <<>>]
    /\ resolved = [c \in ConnIds |-> {}]
    /\ phase = [c \in ConnIds |-> "Idle"]
    /\ fenced = [c \in ConnIds |-> [interrupt |-> {}, prompt |-> {}, stop |-> {}]]
    /\ events = [c \in ConnIds |-> <<>>]
    /\ limit = [c \in ConnIds |-> ScenarioEvents]

SpecScenario == InitScenario /\ [][Next]_vars

----------------------------------------------------------------------------
(* Vocabulary of the properties *)

\* The positions of wire[c] holding the directive caused by event n.
Directives(c, n) == {i \in DOMAIN wire[c] : wire[c][i].ev = n}

\* The positions of wire[c] holding the reply to the prompt event n.
Replies(c, n) == {i \in Directives(c, n) : wire[c][i].by = "prompt"}

\* The number of generation calls issued for the prompt event n.
CallsFor(c, n) == Cardinality({k \in DOMAIN genCalls[c] : genCalls[c][k] = n})

\* Event n belongs to the live call: it was received after a Setup event, and
\* no Stop event has been processed on the connection.
LiveEvent(c, n) ==
    /\ phase[c] = "Active"
    /\ \E s \in DOMAIN wire[c] : wire[c][s].by = "setup" /\ wire[c][s].ev < n

\* The text contains the piece: some run of its chunks is the piece.
TextContains(text, piece) ==
    \E off \in 0..(Len(text) - Len(piece)) :
        SubSeq(text, off + 1, off + Len(piece)) = piece

\* The elements of a sequence.
Range(q) == {q[k] : k \in DOMAIN q}

----------------------------------------------------------------------------
(* Turn fencing and the Idle / Active / Closed states *)

\* C1: in a live call, a reply whose generation call was outstanding when an
\* Interrupt was processed is never handed to ws.send.
C1_InterruptFence ==
    \A c \in conns : \A n \in fenced[c].interrupt :
        LiveEvent(c, n) => Replies(c, n) = {}

\* C2: in a live call, a reply whose generation call was outstanding when a
\* newer non-empty Prompt was received is discarded: only the most recent
\* Prompt is answered.
C2_NewerPromptFence ==
    \A c \in conns : \A n \in fenced[c].prompt :
        LiveEvent(c, n) => Replies(c, n) = {}

\* C3: once a Stop event has been processed, no step sends a directive, issues
\* a generation call or writes the call identifier on that connection.
C3_ClosedIsNoOp ==
    [][\A c \in conns :
          phase[c] = "Closed" =>
              /\ wire'[c] = wire[c]
              /\ genCalls'[c] = genCalls[c]
              /\ callSid'[c] = callSid[c]]_vars

\* C4: before a Setup event is received nothing is sent, no generation call
\* is issued and the call identifier is unset.
C4_IdleRejects ==
    \A c \in conns :
        phase[c] = "Idle" =>
            /\ wire[c] = <<>>
            /\ genCalls[c] = <<>>
            /\ callSid[c] = Null

----------------------------------------------------------------------------
(* One reply per prompt, and generation failures *)

\* C5: for every Prompt event with a non-empty utterance exactly one
\* generation call is issued, and once that call has settled exactly one
\* directive was sent for the event: a non-empty reply with last = TRUE.
\* While the call is outstanding nothing has been sent for the event.
C5_OnePromptOneSpeak ==
    \A c \in conns : \A n \in Range(prompts[c]) :
        /\ CallsFor(c, n) = 1
        /\ Directives(c, n) = Replies(c, n)
        /\ Cardinality(Replies(c, n)) = IF n \in Outstanding(c) THEN 0 ELSE 1
        /\ \A i \in Replies(c, n) :
              /\ wire[c][i].msg.last = TRUE
              /\ Len(wire[c][i].msg.token) > 0

\* Two prompts were answered, one with a generated text and one with the fallback.
C5_Witness ==
    \E c \in conns : \E n, m \in Range(prompts[c]) :
        /\ [ev |-> n, ok |-> TRUE] \in resolved[c]
        /\ [ev |-> m, ok |-> FALSE] \in resolved[c]
        /\ \E i \in Replies(c, n) : wire[c][i].msg.token = <<"hello">>
        /\ \E i \in Replies(c, m) : wire[c][i].msg.token = FallbackReply

\* C6: the step in which a generation call fails sends exactly one directive,
\* carrying the fallback text, lets no error escape the handler and leaves the
\* socket as it is; and after a failure a dtmf event still gets its directive
\* and a prompt event still gets its generation call.
C6_FailureContained ==
    [][\A c \in conns :
          /\ \A n \in Outstanding(c) :
                [ev |-> n, ok |-> FALSE] \in resolved'[c] =>
                    /\ wire'[c] = Append(wire[c],
                                    [msg |-> Payload(FallbackReply, DefaultLang),
                                     ev |-> n, by |-> "prompt"])
                    /\ uncaught'[c] = uncaught[c]
                    /\ wsOpen'[c] = wsOpen[c]
          /\ (\E r \in resolved[c] : ~r.ok) =>
                /\ HandleDTMFInput(c, Str(<<"5">>)) =>
                      Len(wire'[c]) = Len(wire[c]) + 1
                /\ HandleConversationTurn(c, Str(<<"hi">>)) =>
                      \E call \in pending'[c] : call.ev = nrecv'[c]]_vars

\* A call failed, its fallback was sent, and a dtmf event received afterwards
\* was acknowledged on the same, still open socket.
C6_Witness ==
    \E c \in conns : \E i, j \in DOMAIN wire[c] :
        /\ i < j
        /\ wire[c][i].by = "prompt"
        /\ [ev |-> wire[c][i].ev, ok |-> FALSE] \in resolved[c]
        /\ wire[c][i].msg.token = FallbackReply
        /\ wire[c][j].by = "dtmf"
        /\ wire[c][j].ev > wire[c][i].ev
        /\ uncaught[c] = {}
        /\ wsOpen[c]

----------------------------------------------------------------------------
(* Greeting, malformed payloads, outstanding calls, order of the directives *)

\* C7: every directive caused by a Setup event is the greeting with
\* last = TRUE, and every reply to a Prompt is preceded by a greeting.
C7_GreetingFirst ==
    \A c \in conns : \A i \in DOMAIN wire[c] :
        /\ wire[c][i].by = "setup" => wire[c][i].msg = Payload(Greeting, DefaultLang)
        /\ wire[c][i].by = "prompt" =>
              \E j \in 1..(i - 1) : wire[c][j].by = "setup"

\* C8: malformed payloads are dropped: no handler invocation ends in an
\* uncaught error, the call identifier is never set from a missing callSid
\* and, in a live call, no directive is built from a missing digit.
C8_MalformedDropped ==
    \A c \in conns :
        /\ uncaught[c] = {}
        /\ callSid[c] # Undefined
        /\ \A i \in DOMAIN wire[c] :
              LiveEvent(c, wire[c][i].ev) =>
                  wire[c][i].msg.token # <<"You pressed ">> \o ToText(Undefined)

\* C9: at most one generation call of the live call is outstanding on a
\* connection.
C9_SinglePending ==
    \A c \in conns :
        Cardinality({n \in Outstanding(c) : LiveEvent(c, n)}) <= 1

\* C10 as stated, for the events of a live call (received from the Setup
\* event on, no Stop event processed): directives are sent in the order in
\* which the events that cause them were received.
C10_ReceiptOrder ==
    \A c \in conns : \A i, j \in DOMAIN wire[c] :
        (/\ phase[c] = "Active"
         /\ \E s \in DOMAIN wire[c] :
               wire[c][s].by = "setup" /\ wire[c][s].ev <= wire[c][i].ev
         /\ wire[c][i].ev < wire[c][j].ev) => i < j

\* C10 as amended: the directive of a Setup or Dtmf event, which is sent while
\* the event is handled, precedes the directive of every event received later.
C10_SynchronousOrder ==
    \A c \in conns : \A i, j \in DOMAIN wire[c] :
        (wire[c][i].ev < wire[c][j].ev /\ wire[c][i].by # "prompt") => i < j

\* A dtmf acknowledgement was sent between a prompt received before it, whose
\* reply came after it, and the directive of an event received after it.
C10_Witness ==
    \E c \in conns : \E k, i, j \in DOMAIN wire[c] :
        /\ wire[c][i].by = "dtmf"
        /\ wire[c][k].by = "prompt" /\ wire[c][k].ev < wire[c][i].ev /\ i < k
        /\ wire[c][j].ev > wire[c][i].ev /\ i < j

----------------------------------------------------------------------------
(* Events received while a generation call is outstanding *)

\* C11: while a generation call is outstanding the handler accepts an
\* Interrupt, a Dtmf and a Prompt event, and what such an event does when it
\* is handled is done whatever is outstanding: every dtmf event received has
\* its acknowledgement on the wire and every non-empty prompt received has
\* its generation call issued.
C11_NonBlocking ==
    \A c \in conns :
        /\ (pending[c] # {} /\ wsOpen[c] /\ nrecv[c] < limit[c]) =>
              /\ ENABLED HandleUserInterruption(c)
              /\ ENABLED HandleDTMFInput(c, Str(<<"5">>))
              /\ Len(genCalls[c]) < MaxCalls =>
                    ENABLED HandleConversationTurn(c, Str(<<"hi">>))
        /\ \A k \in DOMAIN events[c] :
              /\ events[c][k] = "dtmf" => Cardinality(Directives(c, k)) = 1
              /\ k \in Range(prompts[c]) => CallsFor(c, k) = 1

\* A generation call is still outstanding although an interrupt was handled
\* and a dtmf event received after the prompt has been acknowledged.
C11_Witness ==
    \E c \in conns : \E n \in Outstanding(c) : \E k \in DOMAIN events[c] :
        /\ n \in fenced[c].interrupt
        /\ k > n
        /\ events[c][k] = "dtmf"
        /\ Directives(c, k) # {}

----------------------------------------------------------------------------
(* Dtmf, Interrupt and Error events *)

\* C12: handling a Dtmf event that carries digit d in the Active state adds
\* exactly one directive to the wire, a text message whose token contains d,
\* and issues no generation call.
C12_DtmfAcknowledged ==
    [][\A c \in conns : \A d \in {x \in Digits : Truthy(x)} :
          (phase[c] = "Active" /\ HandleDTMFInput(c, d)) =>
              /\ Len(wire'[c]) = Len(wire[c]) + 1
              /\ SubSeq(wire'[c], 1, Len(wire[c])) = wire[c]
              /\ wire'[c][Len(wire'[c])].ev = nrecv'[c]
              /\ wire'[c][Len(wire'[c])].msg.type = "text"
              /\ TextContains(wire'[c][Len(wire'[c])].msg.token, d.v)
              /\ genCalls'[c] = genCalls[c]
              /\ pending'[c] = pending[c]]_vars

\* A dtmf event of the live call was acknowledged with a token naming "5".
C12_Witness ==
    \E c \in conns : \E k \in DOMAIN events[c] :
        /\ events[c][k] = "dtmf"
        /\ LiveEvent(c, k)
        /\ \E i \in Directives(c, k) : TextContains(wire[c][i].msg.token, <<"5">>)

\* C13: the step that handles an Interrupt or an Error event sends nothing,
\* issues no generation call, lets no error escape and leaves the socket and
\* the call identifier as they are; and after an Error event, as long as the
\* transport keeps the socket open, the handler still accepts a dtmf and a
\* prompt event.
C13_InterruptErrorSilent ==
    /\ [][\A c \in conns :
            (\/ events'[c] = Append(events[c], "interrupt")
             \/ events'[c] = Append(events[c], "error")) =>
                /\ wire'[c] = wire[c]
                /\ genCalls'[c] = genCalls[c]
                /\ pending'[c] = pending[c]
                /\ uncaught'[c] = uncaught[c]
                /\ wsOpen'[c] = wsOpen[c]
                /\ callSid'[c] = callSid[c]]_vars
    /\ [](\A c \in conns :
            ("error" \in Range(events[c]) /\ wsOpen[c] /\ nrecv[c] < limit[c]) =>
                /\ ENABLED HandleDTMFInput(c, Str(<<"5">>))
                /\ Len(genCalls[c]) < MaxCalls =>
                      ENABLED HandleConversationTurn(c, Str(<<"hi">>)))

\* An Interrupt and an Error event were handled without a directive of their
\* own, and a dtmf event received after the error was acknowledged.
C13_Witness ==
    \E c \in conns : \E k, m, n \in DOMAIN events[c] :
        /\ events[c][k] = "interrupt" /\ Directives(c, k) = {}
        /\ events[c][m] = "error" /\ Directives(c, m) = {}
        /\ events[c][n] = "dtmf" /\ m < n /\ Directives(c, n) # {}
        /\ wsOpen[c]

----------------------------------------------------------------------------
(* End-to-end scenario *)

\* The run of the scenario: Setup{callSid: "CA1"}, Prompt{voicePrompt: "hi"}
\* whose generation call resolved with "hello" before the next event, then
\* Interrupt, Stop and a second Prompt{voicePrompt: "hi"}.
ScenarioRun(c) ==
    /\ events[c] = <<"setup", "prompt", "interrupt", "stop", "prompt">>
    /\ callSid[c] = Str(<<"CA1">>)
    /\ prompts[c] = <<2, 5>>
    /\ [ev |-> 2, ok |-> TRUE] \in resolved[c]
    /\ \E i \in Replies(c, 2) : wire[c][i].msg.token = <<"hello">>
    /\ 2 \notin fenced[c].interrupt \cup fenced[c].stop \cup fenced[c].prompt

\* C14: in the run of the scenario the wire holds exactly two directives, the
\* greeting and Speak{token: "hello", last: true}, and the Prompt delivered
\* after Stop issued no generation call.
C14_EndToEnd ==
    \A c \in conns :
        ScenarioRun(c) =>
            /\ Len(wire[c]) = 2
            /\ wire[c][1].msg = Payload(Greeting, DefaultLang)
            /\ wire[c][2].msg = Payload(<<"hello">>, DefaultLang)
            /\ genCalls[c] = <<2>>
            /\ pending[c] = {}

----------------------------------------------------------------------------
(* The directive encoder *)

\* C15 as stated: every call of the encoder, whatever the text, hands exactly
\* one wire message to ws.send.
C15_EncoderTotal ==
    [][\A c \in conns :
          nrecv'[c] = nrecv[c] + 1 => Len(wire'[c]) = Len(wire[c]) + 1]_vars

\* C15 as amended: a call with a non-empty text hands exactly one message
\* {type: "text", token, last, lang, interruptible, preemptible} to ws.send,
\* with the text as token and 'en-US' for a missing lang; a call with the
\* empty string returns without sending.
C15_EncoderNonEmpty ==
    [][\A c \in conns : \A text \in Texts, lang \in Langs :
          SendText(c, text, lang) =>
              IF Len(text) = 0
              THEN wire'[c] = wire[c]
              ELSE /\ Len(wire'[c]) = Len(wire[c]) + 1
                   /\ SubSeq(wire'[c], 1, Len(wire[c])) = wire[c]
                   /\ wire'[c][Len(wire'[c])].msg =
                        [type |-> "text", token |-> text, last |-> TRUE,
                         lang |-> IF lang = Undefined THEN <<"en-US">> ELSE lang.v,
                         interruptible |-> TRUE, preemptible |-> TRUE]]_vars

\* The encoder was called with a text, which it sent, and with the empty
\* string, for which it sent nothing.
C15_Witness ==
    \E c \in conns : \E k, m \in DOMAIN events[c] :
        /\ events[c][k] = "sendText(text)" /\ Cardinality(Directives(c, k)) = 1
        /\ events[c][m] = "sendText('')" /\ Directives(c, m) = {}

----------------------------------------------------------------------------
(* Setup outside Idle, empty prompts, retries *)

\* C16: a Setup event received in the Active or Closed state sends no greeting
\* and leaves the call identifier as it is, and no event other than Setup
\* writes the call identifier.
C16_SetupOnlyFromIdle ==
    [][\A c \in conns :
          /\ (phase[c] # "Idle" /\ events'[c] = Append(events[c], "setup")) =>
                (wire'[c] = wire[c] /\ callSid'[c] = callSid[c])
          /\ events'[c] # Append(events[c], "setup") =>
                callSid'[c] = callSid[c]]_vars

\* C17: handling a Prompt event whose utterance is the empty string or is
\* missing issues no generation call, sends nothing and leaves the call
\* identifier, the outstanding calls, the socket and the uncaught errors as
\* they are.
C17_EmptyPromptIgnored ==
    [][\A c \in conns :
          (\/ HandleConversationTurn(c, Str(<<>>))
           \/ HandleConversationTurn(c, Undefined)) =>
              /\ genCalls'[c] = genCalls[c]
              /\ pending'[c] = pending[c]
              /\ wire'[c] = wire[c]
              /\ callSid'[c] = callSid[c]
              /\ uncaught'[c] = uncaught[c]
              /\ wsOpen'[c] = wsOpen[c]]_vars

\* A prompt event of the live call without utterance was handled: no call
\* was issued for it and nothing was sent for it.
C17_Witness ==
    \E c \in conns : \E k \in DOMAIN events[c] :
        /\ events[c][k] = "prompt"
        /\ LiveEvent(c, k)
        /\ k \notin Range(genCalls[c])
        /\ Directives(c, k) = {}

\* C18: a generation call that failed was the only attempt for its prompt:
\* one call was issued for the event, none is outstanding for it any more,
\* and the one directive sent for it carries the fallback text.
C18_NoRetry ==
    \A c \in conns : \A r \in resolved[c] :
        ~r.ok =>
            /\ CallsFor(c, r.ev) = 1
            /\ r.ev \notin Outstanding(c)
            /\ Cardinality(Replies(c, r.ev)) = 1
            /\ \A i \in Replies(c, r.ev) : wire[c][i].msg.token = FallbackReply

\* Two prompts failed, each after a single attempt, and each got the fallback.
C18_Witness ==
    \E c \in conns : \E r, q \in resolved[c] :
        /\ r.ev < q.ev
        /\ ~r.ok /\ ~q.ok
        /\ Len(genCalls[c]) = 2
        /\ \E i \in Replies(c, r.ev) : wire[c][i].msg.token = FallbackReply
        /\ \E i \in Replies(c, q.ev) : wire[c][i].msg.token = FallbackReply

----------------------------------------------------------------------------
(* Two connections *)

\* C19: a step taken for one connection (an event received on it, or one of
\* its generation calls settling) leaves the call identifier, the wire, the
\* outstanding calls and the socket of every other connection as they are.
C19_SessionsIsolated ==
    [][\A c, d \in conns :
          (c # d /\ (nrecv'[d] # nrecv[d] \/ pending'[d] # pending[d])) =>
              /\ callSid'[c] = callSid[c]
              /\ wire'[c] = wire[c]
              /\ pending'[c] = pending[c]
              /\ wsOpen'[c] = wsOpen[c]]_vars

\* Two connections that have both acted and differ in everything they own:
\* one was set up and greeted, the other was never set up and was sent the
\* reply to its prompt.
C19_Witness ==
    /\ conns = {1, 2}
    /\ callSid[1] = Str(<<"CA1">>)
    /\ callSid[2] = Null
    /\ Len(wire[1]) = 1 /\ wire[1][1].by = "setup"
    /\ Len(wire[2]) = 1 /\ wire[2][1].by = "prompt"
    /\ resolved[2] # {}

----------------------------------------------------------------------------
(* Shape of the directives *)

\* C20: every directive sent on a connection has type "text", a non-empty
\* token, last, interruptible and preemptible all true; and the step in which
\* a generation call succeeds with an empty or a missing content sends exactly
\* one directive, carrying the default reply.
C20_DirectiveShape ==
    /\ [](\A c \in conns : \A i \in DOMAIN wire[c] :
             /\ wire[c][i].msg.type = "text"
             /\ Len(wire[c][i].msg.token) > 0
             /\ wire[c][i].msg.last
             /\ wire[c][i].msg.interruptible
             /\ wire[c][i].msg.preemptible)
    /\ [][\A c \in conns : \A ev \in EventIds : \A completion \in Completions :
             (/\ completion.ok
              /\ ~Truthy(completion.content)
              /\ ResumeConversationTurn(c, ev, completion)) =>
                 wire'[c] = Append(wire[c],
                                   [msg |-> Payload(DefaultReply, DefaultLang),
                                    ev |-> ev, by |-> "prompt"])]_vars

\* A generation call succeeded and the reply sent for its prompt is the
\* default reply, on a connection that was also sent the greeting.
C20_Witness ==
    \E c \in conns : \E r \in resolved[c] :
        /\ r.ok
        /\ \E i \in Replies(c, r.ev) : wire[c][i].msg.token = DefaultReply
        /\ \E j \in DOMAIN wire[c] : wire[c][j].msg.token = Greeting

====
